---- MODULE Spec2Model ----
(***************************************************************************)
(* State-machine model of the RAG server (server/server.js): the upload    *)
(* pipeline (multer -> parsePDF -> processDocument) and the streaming chat *)
(* endpoint, interleaved at their await points on Node's single thread.    *)
(* The collaborators (pdf-parse, the text splitter, the embeddings and LLM *)
(* provider, ChromaDB) are external: each call returns or throws, chosen   *)
(* nondeterministically when the call completes.                           *)
(***************************************************************************)
EXTENDS Naturals, Sequences, FiniteSets

\* ---- bounds of the model
MaxUploads == 2      \* upload requests; each draws a fresh uuid (server.js:231)
MaxChats == 1        \* chat requests
MaxChunks == 2       \* chunks the text splitter returns for one document
MaxSourceChunks == 5 \* chunks of the one long document of SpecSources
MaxSends == 2        \* questions submitted in one ChatInterface

\* ---- program constants
NResults == 4        \* nResults of the collection query
ChunkSize == 1000    \* chunkSize of the text splitter
SourceChars == 200   \* substring(0, 200) of a source's content
EllipsisChars == 3   \* the length of '...'

Uploads == 1..MaxUploads
Chats == 1..MaxChats
NoCollection == 0    \* currentCollection = null

Min(a, b) == IF a < b THEN a ELSE b

VARIABLES
  currentCollection, \* the global handle: NoCollection or the upload whose collection it is
  collections,       \* names of the collections that exist in ChromaDB
  store,             \* store[u]: the entries added to collection_<u>, in order
  upload,            \* upload[u]: the state of upload request u
  chat,              \* chat[c]: the state of chat request c
  vectorStore,       \* the global vectorStore, which no statement assigns
  info,              \* the last GET /collection/:id request and its response
  client,            \* the browser client: the state of App and FileUpload
  chromaClient,      \* the global chromaClient: "null" or the client object
  startup,           \* initializeChroma's promise, and the server process
  chatInterface      \* the browser client: the state of ChatInterface

vars ==
  <<currentCollection, collections, store, upload, chat, vectorStore, info, client,
    chromaClient, startup, chatInterface>>

\* The state outside the upload and chat handlers
extra == <<vectorStore, info, client, chromaClient, startup, chatInterface>>

\* ---- the text splitter's output: a chunk is blank (whitespace only) or has text
ChunkKinds == {"text", "blank"}

\* The chunks of a long document: full chunks and chunks shorter than a source excerpt
SourceChunkKinds == {"text", "short"}

\* pageContent.length of a chunk of each kind
Chars(kind) ==
  IF kind = "text" THEN ChunkSize ELSE IF kind = "short" THEN SourceChars - 1 ELSE 1

\* doc.trim().length
TrimChars(kind) == IF kind = "blank" THEN 0 ELSE Chars(kind)

RECURSIVE SeqsUpTo(_, _)
SeqsUpTo(S, n) ==
  IF n = 0 THEN {<<>>}
  ELSE LET shorter == SeqsUpTo(S, n - 1)
       IN  shorter \cup {Append(s, x) : s \in {t \in shorter : Len(t) = n - 1}, x \in S}

ChunkLists == SeqsUpTo(ChunkKinds, MaxChunks)

\* The long document: MaxSourceChunks chunks, none of them blank
SourceChunkLists ==
  {d \in SeqsUpTo(SourceChunkKinds, MaxSourceChunks) : Len(d) = MaxSourceChunks}

\* documents.forEach filter: the indices (0-based, as in the ids) of the chunks kept
RECURSIVE ValidIndices(_)
ValidIndices(docs) ==
  IF docs = <<>> THEN <<>>
  ELSE LET front == ValidIndices(SubSeq(docs, 1, Len(docs) - 1))
       IN  IF TrimChars(docs[Len(docs)]) > 0 THEN Append(front, Len(docs) - 1) ELSE front

\* ---- requests before they arrive
IdleUpload ==
  [pc |-> "idle", mimetype |-> "none", text |-> "none", docs |-> <<>>, i |-> 0,
   calls |-> {}, status |-> 0, stage |-> "none", chunksCount |-> 0, file |-> "none",
   lookup |-> "none"]

IdleChat ==
  [pc |-> "idle", question |-> FALSE, collectionId |-> NoCollection,
   handle |-> NoCollection, docs |-> <<>>, status |-> 0, error |-> "none",
   failedAt |-> "none", written |-> <<>>, ended |-> FALSE, closed |-> FALSE,
   embedCalls |-> 0, queryCalls |-> 0, llmCalls |-> 0]

\* No GET /collection/:id request yet
NoInfo == [id |-> NoCollection, status |-> 0]

\* useState initial values of App and FileUpload; request is the upload in flight
InitialClient ==
  [currentView |-> "upload", documentLoaded |-> FALSE, collectionId |-> NoCollection,
   isProcessing |-> FALSE, selectedFile |-> FALSE, uploadStatus |-> "null",
   error |-> "null", request |-> "none"]

\* Mutant: initializeChroma() called without its .catch
InitRejectedUnhandled(process) == "crashed"

\* initializeChroma().catch(...): the rejection is logged and the server goes on
InitRejected(process) == process

\* The listen callback has run initializeChroma up to its first await: a constructor
\* threw and chromaClient is still null, or chromaClient is assigned and the
\* heartbeat is pending
Listening ==
  \/ /\ chromaClient = "null"
     /\ startup = [initializeChroma |-> "rejected", process |-> InitRejected("running")]
  \/ /\ chromaClient = "client"
     /\ startup = [initializeChroma |-> "pending", process |-> "running"]

\* The welcome message set by the mount effect
Welcome == [id |-> 1, type |-> "bot", content |-> "Hello!", sources |-> "undefined"]

\* A handleSendMessage call that has not been made. applied lists the events it has
\* applied to its bot message; cut tells whether a read of it ended inside a line.
NoSend == [pc |-> "none", bot |-> 0, stream |-> <<>>, pos |-> 0, buffer |-> <<>>,
           applied |-> <<>>, cut |-> FALSE]

\* ChatInterface once mounted: its useState values after the mount effect
MountedChat ==
  [messages |-> <<Welcome>>, inputMessage |-> "", isLoading |-> FALSE,
   isStreaming |-> FALSE, rendered |-> "ok", sent |-> 0,
   sends |-> [r \in 1..MaxSends |-> NoSend]]

Init ==
  /\ Listening
  /\ chatInterface = MountedChat
  /\ currentCollection = NoCollection
  /\ collections = {}
  /\ store = [u \in Uploads |-> <<>>]
  /\ upload = [u \in Uploads |-> IdleUpload]
  /\ chat = [c \in Chats |-> IdleChat]
  /\ vectorStore = "null"
  /\ info = NoInfo
  /\ client = InitialClient

\* ======================= POST /upload =======================

\* multer fileFilter: only application/pdf is accepted
fileFilter(mimetype) == mimetype = "pdf"

\* Mutant: the error paths remove the stored file
RespondUnlinks(u, code, stage) ==
  [upload[u] EXCEPT !.pc = "done", !.status = code, !.stage = stage, !.docs = <<>>, !.i = 0,
                    !.lookup = "none", !.file = IF @ = "ondisk" THEN "deleted" ELSE @]

\* An error response of the upload handler (or of the error middleware) and the end
\* of the request; the locals of processDocument are dropped with it
Respond(u, code, stage) ==
  [upload[u] EXCEPT !.pc = "done", !.status = code, !.stage = stage, !.docs = <<>>, !.i = 0,
                    !.lookup = "none"]

\* Mutant: the check without the trim()
NoTextContentNoTrim(text) == text = "empty"

\* if (!text || text.trim().length === 0)
NoTextContent(text) == text \in {"empty", "whitespace"}

\* documents = documentsWithMetadata.map(doc => doc.pageContent): the text of a chunk
\* is told apart by its position in the splitter's output and its kind
Documents(docs) == [k \in 1..Len(docs) |-> [chunk |-> k - 1, kind |-> docs[k]]]

\* ids = documentsWithMetadata.map((_, index) => `${collectionId}_${index}`)
Ids(u, docs) == [k \in 1..Len(docs) |-> <<u, k - 1>>]

\* Mutant: the ids not filtered with the documents
ValidIdsUnfiltered(u, docs) == Ids(u, docs)

\* validDocuments and validIds: pushed together for each index the filter keeps
ValidDocuments(docs) ==
  [j \in 1..Len(ValidIndices(docs)) |-> Documents(docs)[ValidIndices(docs)[j] + 1]]
ValidIds(u, docs) ==
  [j \in 1..Len(ValidIndices(docs)) |-> Ids(u, docs)[ValidIndices(docs)[j] + 1]]

\* embeddings.embedDocuments(texts): one vector per text, in the order of the texts
EmbeddingsList(texts) == [j \in 1..Len(texts) |-> [of |-> texts[j]]]

\* ids / documents / embeddings of the i-th collection.add (i counts from 0)
AddEntry(u, docs, i) ==
  [id |-> ValidIds(u, docs)[i + 1],
   document |-> ValidDocuments(docs)[i + 1],
   embedding |-> EmbeddingsList(ValidDocuments(docs))[i + 1]]

\* Mutant: the assignment moved into the loop body
HandleAssignedInLoop(cur, u, i, n) == u

\* Mutant: the loop left one add early (i < length - 1)
HandleOffByOne(cur, u, i, n) == IF i + 1 < n THEN cur ELSE u

\* Mutant: the handle cleared while a new document is being inserted
HandleClearedWhileAdding(cur, u, i, n) == IF i < n THEN NoCollection ELSE u

\* Mutant: the handle kept once set (first write wins)
HandleFirstWriteWins(cur, u, i, n) ==
  IF i < n THEN cur ELSE IF cur = NoCollection THEN u ELSE cur

\* The for loop over validDocuments followed by "currentCollection = collection":
\* the global handle once i adds have returned, n being validDocuments.length
HandleAfterAdd(cur, u, i, n) == IF i < n THEN cur ELSE u

\* A request arrives; multer runs the fileFilter and stores the file; the handler
\* runs up to "await parsePDF(filePath)". Uploads are numbered in arrival order.
UploadRequest(u, mimetype) ==
  /\ upload[u].pc = "idle"
  /\ \A v \in Uploads : v < u => upload[v].pc # "idle"
  /\ upload' =
       [upload EXCEPT ![u] =
          IF mimetype = "none" THEN Respond(u, 400, "noFile")
          ELSE IF ~fileFilter(mimetype)
            THEN [Respond(u, 500, "fileFilter") EXCEPT !.mimetype = mimetype]
          ELSE [upload[u] EXCEPT !.pc = "parsePDF", !.mimetype = mimetype,
                                 !.file = "ondisk", !.calls = {"parsePDF"}]]
  /\ UNCHANGED <<currentCollection, collections, store, chat, extra>>

\* parsePDF returns the text or throws; processDocument starts and awaits the splitter
ParsePDFReturn(u, text) ==
  /\ upload[u].pc = "parsePDF"
  /\ upload' =
       [upload EXCEPT ![u] =
          IF text = "throws" THEN Respond(u, 500, "parsePDF")
          ELSE IF NoTextContent(text) THEN [Respond(u, 400, "noText") EXCEPT !.text = text]
          ELSE [upload[u] EXCEPT !.pc = "createDocuments", !.text = text,
                                 !.calls = @ \cup {"createDocuments"}]]
  /\ UNCHANGED <<currentCollection, collections, store, chat, extra>>

\* textSplitter.createDocuments returns the chunks or throws; getCollection is called.
\* On a null chromaClient both chromaClient.getCollection and, in the catch block,
\* chromaClient.createCollection throw a TypeError at once.
CreateDocumentsReturn(u, ok, docs) ==
  /\ upload[u].pc = "createDocuments"
  /\ upload' =
       [upload EXCEPT ![u] =
          IF ~ok THEN Respond(u, 500, "createDocuments")
          ELSE IF chromaClient = "null" THEN Respond(u, 500, "chromaClient")
          ELSE [upload[u] EXCEPT !.pc = "getCollection", !.docs = docs,
                                 !.calls = @ \cup {"getCollection"}]]
  /\ UNCHANGED <<currentCollection, collections, store, chat, extra>>

\* Lines 148-184 once the collection handle is held: validation, then embedDocuments
AfterCollection(u) ==
  IF Len(upload[u].docs) = 0 THEN Respond(u, 500, "noDocuments")
  ELSE IF Len(ValidIndices(upload[u].docs)) = 0 THEN Respond(u, 500, "noValidDocuments")
  ELSE [upload[u] EXCEPT !.pc = "embedDocuments", !.calls = @ \cup {"embedDocuments"}]

\* Mutant: one collection name for every upload
CollectionNameShared(u) == 1

\* collectionName = `collection_${collectionId}`, collectionId being the uuid drawn
\* for this request
CollectionName(u) == u

\* chromaClient.getCollection({name}): the call fails (ok false), or ChromaDB answers
GetCollection(name, ok) ==
  IF ~ok THEN "throws" ELSE IF name \in collections THEN "found" ELSE "notFound"

\* chromaClient.createCollection({name}): the call fails (ok false), or ChromaDB
\* answers: it refuses a name that exists
CreateCollection(name, ok) ==
  IF ~ok THEN "createCollection"
  ELSE IF name \in collections THEN "alreadyExists" ELSE "created"

\* getCollection returns the existing collection, or throws (not found, or ChromaDB
\* unreachable) and the catch block calls createCollection
GetCollectionReturn(u, ok) ==
  /\ upload[u].pc = "getCollection"
  /\ LET result == GetCollection(CollectionName(u), ok)
     IN  upload' =
           [upload EXCEPT ![u] =
              IF result = "found" THEN [AfterCollection(u) EXCEPT !.lookup = result]
              ELSE [upload[u] EXCEPT !.pc = "createCollection", !.lookup = result,
                                     !.calls = @ \cup {"createCollection"}]]
  /\ UNCHANGED <<currentCollection, collections, store, chat, extra>>

\* createCollection returns a new empty collection or throws
CreateCollectionReturn(u, ok) ==
  /\ upload[u].pc = "createCollection"
  /\ LET result == CreateCollection(CollectionName(u), ok)
     IN  IF result = "created"
           THEN /\ collections' = collections \cup {CollectionName(u)}
                /\ upload' = [upload EXCEPT ![u] = AfterCollection(u)]
           ELSE /\ collections' = collections
                /\ upload' = [upload EXCEPT ![u] = Respond(u, 500, result)]
  /\ UNCHANGED <<currentCollection, store, chat, extra>>

\* embeddings.embedDocuments returns one vector per valid chunk or throws;
\* the first collection.add is called
EmbedDocumentsReturn(u, ok) ==
  /\ upload[u].pc = "embedDocuments"
  /\ upload' =
       [upload EXCEPT ![u] =
          IF ~ok THEN Respond(u, 500, "embedDocuments")
          ELSE [upload[u] EXCEPT !.pc = "add", !.i = 0, !.calls = @ \cup {"add"}]]
  /\ UNCHANGED <<currentCollection, collections, store, chat, extra>>

\* collection.add number i returns or throws. After the last one the handle is
\* registered, processDocument returns, the handler unlinks the file and responds.
AddReturn(u, ok, unlinkOk) ==
  /\ upload[u].pc = "add"
  /\ LET docs == upload[u].docs
         n == Len(ValidIndices(docs))
         i == upload[u].i
     IN  IF ~ok
           THEN /\ upload' = [upload EXCEPT ![u] = Respond(u, 500, "add")]
                /\ UNCHANGED <<currentCollection, store>>
           ELSE /\ store' = [store EXCEPT ![CollectionName(u)] =
                                   Append(@, AddEntry(u, docs, i))]
                /\ currentCollection' =
                     HandleAfterAdd(currentCollection, CollectionName(u), i + 1, n)
                /\ upload' =
                     [upload EXCEPT ![u] =
                        IF i + 1 < n THEN [upload[u] EXCEPT !.i = i + 1]
                        ELSE IF unlinkOk
                          THEN [upload[u] EXCEPT !.pc = "done", !.i = i + 1, !.status = 200,
                                                 !.chunksCount = Len(docs), !.file = "deleted",
                                                 !.lookup = "none"]
                          ELSE [upload[u] EXCEPT !.pc = "done", !.i = i + 1, !.status = 500,
                                                 !.stage = "unlink", !.lookup = "none"]]
  /\ UNCHANGED <<collections, chat, extra>>

UploadNext ==
  \/ \E u \in Uploads, m \in {"none", "pdf", "other"} : UploadRequest(u, m)
  \/ \E u \in Uploads, t \in {"throws", "empty", "whitespace", "text"} : ParsePDFReturn(u, t)
  \/ \E u \in Uploads, ok \in BOOLEAN, d \in ChunkLists : CreateDocumentsReturn(u, ok, d)
  \/ \E u \in Uploads, ok \in BOOLEAN : GetCollectionReturn(u, ok)
  \/ \E u \in Uploads, ok \in BOOLEAN : CreateCollectionReturn(u, ok)
  \/ \E u \in Uploads, ok \in BOOLEAN : EmbedDocumentsReturn(u, ok)
  \/ \E u \in Uploads, ok \in BOOLEAN, unlinkOk \in BOOLEAN : AddReturn(u, ok, unlinkOk)

\* ======================= POST /chat =======================

\* The data of one "data: {...}\n\n" chunk
Event(type, answer, sources, error) ==
  [type |-> type, answer |-> answer, sources |-> sources, error |-> error]

StartEvent == Event("start", "none", <<>>, "none")
EndEvent == Event("end", "none", <<>>, "none")
ErrorEvent(message) == Event("error", "none", <<>>, message)
CannedAnswer == Event("answer", "I couldn't find any relevant information", <<>>, "none")
\* Mutant: the whole text quoted
SubstringAll(chars, end) == chars

\* pageContent.substring(0, end): the number of characters kept
Substring(chars, end) == Min(chars, end)

\* {content: doc.pageContent.substring(0, 200) + '...', metadata: doc.metadata} for a
\* retrieved entry; the entries were added without metadata
Source(doc) ==
  [of |-> doc.document,
   prefix |-> Substring(Chars(doc.document.kind), SourceChars),
   chars |-> Substring(Chars(doc.document.kind), SourceChars) + EllipsisChars,
   metadata |-> "document"]

\* sources: docs.map(doc => ({content, metadata})), one per retrieved document
LLMAnswer(docs) ==
  Event("answer", "response.content", [k \in 1..Len(docs) |-> Source(docs[k])], "none")

\* Mutant: the handler without its currentCollection check
ChatCheckQuestionOnly(question, cur) ==
  IF ~question THEN "Question is required" ELSE "ok"

\* The checks at the head of the handler
ChatCheck(question, cur) ==
  IF ~question THEN "Question is required"
  ELSE IF cur = NoCollection THEN "No document loaded. Please upload a document first."
  ELSE "ok"

\* The handle the query is sent to, for a request that supplied collectionId
QueryHandle(collectionId, cur) == cur

\* The catch block of pull: the message sent for an error whose message contains
\* the substrings in keywords
Keywords == {"Invalid where clause", "collection", "embedding"}
ErrorMessage(keywords) ==
  IF "Invalid where clause" \in keywords
    THEN "Database query error. Please try uploading the document again."
  ELSE IF "collection" \in keywords
    THEN "No document found. Please upload a document first."
  ELSE IF "embedding" \in keywords
    THEN "Embedding error. Please try again."
  ELSE "Failed to process question"

\* Mutant: a catch block that only closes the stream
OnErrorSilent(keywords) == <<>>

\* Mutant: the answer sent without the end signal
OnAnswerNoEnd(docs) == <<LLMAnswer(docs)>>

\* What pull enqueues before controller.close() on each of its three exits
OnError(keywords) == <<ErrorEvent(ErrorMessage(keywords))>>
OnNoDocs == <<CannedAnswer, EndEvent>>
OnAnswer(docs) == <<LLMAnswer(docs), EndEvent>>

\* Mutant: no early return for an empty result
NeverSkipsLLM(docs) == FALSE

\* if (docs.length === 0) returns before llm.invoke
SkipsLLM(docs) == Len(docs) = 0

\* Mutant: pump returns at done without res.end()
pumpNoEnd(c, chunks) == [chat[c] EXCEPT !.pc = "done", !.written = @ \o chunks]

\* pump: every chunk enqueued is written in order; once the stream is closed and
\* drained, read() reports done and res.end() is called
pump(c, chunks) ==
  [chat[c] EXCEPT !.pc = "done", !.written = @ \o chunks, !.ended = TRUE]

\* The catch block of pull, entered from the call that threw
catch(c, call, keywords) == [pump(c, OnError(keywords)) EXCEPT !.failedAt = call]

\* A request arrives. The handler validates it, builds the stream (start enqueues the
\* first event), pump writes it, and pull runs up to "await embeddings.embedQuery".
ChatRequest(c, question, collectionId) ==
  /\ chat[c].pc = "idle"
  /\ \A d \in Chats : d < c => chat[d].pc # "idle"
  /\ LET check == ChatCheck(question, currentCollection)
         req == [chat[c] EXCEPT !.question = question, !.collectionId = collectionId]
     IN  chat' =
           [chat EXCEPT ![c] =
              IF check # "ok"
                THEN [req EXCEPT !.pc = "done", !.status = 400, !.error = check,
                                 !.ended = TRUE]
                ELSE [req EXCEPT !.pc = "embedQuery", !.status = 200,
                                 !.written = <<StartEvent>>, !.embedCalls = 1]]
  /\ UNCHANGED <<currentCollection, collections, store, upload, extra>>

\* embedQuery returns or throws; currentCollection is read now and its query is called
EmbedQueryReturn(c, ok, keywords) ==
  /\ chat[c].pc = "embedQuery"
  /\ LET handle == QueryHandle(chat[c].collectionId, currentCollection)
     IN  chat' =
           [chat EXCEPT ![c] =
              IF ~ok THEN catch(c, "embedQuery", keywords)
              ELSE IF handle = NoCollection THEN catch(c, "query", {})
              ELSE [chat[c] EXCEPT !.pc = "query", !.handle = handle, !.queryCalls = 1]]
  /\ UNCHANGED <<currentCollection, collections, store, upload, extra>>

\* collection.query returns at most nResults documents of the collection or throws
QueryReturn(c, ok, keywords, n) ==
  /\ chat[c].pc = "query"
  /\ n <= Min(NResults, Len(store[chat[c].handle]))
  /\ LET docs == SubSeq(store[chat[c].handle], 1, n)
     IN  chat' =
           [chat EXCEPT ![c] =
              IF ~ok THEN catch(c, "query", keywords)
              ELSE IF SkipsLLM(docs) THEN [pump(c, OnNoDocs) EXCEPT !.docs = docs]
              ELSE [chat[c] EXCEPT !.pc = "invoke", !.docs = docs, !.llmCalls = 1]]
  /\ UNCHANGED <<currentCollection, collections, store, upload, extra>>

\* llm.invoke returns the answer or throws
InvokeReturn(c, ok, keywords) ==
  /\ chat[c].pc = "invoke"
  /\ chat' =
       [chat EXCEPT ![c] =
          IF ok THEN pump(c, OnAnswer(chat[c].docs)) ELSE catch(c, "invoke", keywords)]
  /\ UNCHANGED <<currentCollection, collections, store, upload, extra>>

\* The messages an error thrown by a collaborator may carry (none when it returns)
Thrown(ok) == IF ok THEN {{}} ELSE SUBSET Keywords

ChatNext ==
  \/ \E c \in Chats, q \in BOOLEAN, id \in Uploads : ChatRequest(c, q, id)
  \/ \E c \in Chats, ok \in BOOLEAN : \E k \in Thrown(ok) : EmbedQueryReturn(c, ok, k)
  \/ \E c \in Chats, ok \in BOOLEAN :
       \E k \in Thrown(ok), n \in (IF ok THEN 0..NResults ELSE {0}) : QueryReturn(c, ok, k, n)
  \/ \E c \in Chats, ok \in BOOLEAN : \E k \in Thrown(ok) : InvokeReturn(c, ok, k)

Next == UploadNext \/ ChatNext

Spec == Init /\ [][Next]_vars

\* The call chat c is awaiting returns or throws
ChatReturns(c) ==
  \/ \E ok \in BOOLEAN : \E k \in Thrown(ok) : EmbedQueryReturn(c, ok, k)
  \/ \E ok \in BOOLEAN :
       \E k \in Thrown(ok), n \in (IF ok THEN 0..NResults ELSE {0}) : QueryReturn(c, ok, k, n)
  \/ \E ok \in BOOLEAN : \E k \in Thrown(ok) : InvokeReturn(c, ok, k)

\* The server when every collaborator call of a chat eventually returns or throws
SpecLive == Spec /\ \A c \in Chats : WF_vars(ChatReturns(c))

\* ======================= one long document =======================

\* The first upload, whose splitter returns the chunks of a long document
SourcesNext ==
  \/ \E m \in {"none", "pdf", "other"} : UploadRequest(1, m)
  \/ \E t \in {"throws", "empty", "whitespace", "text"} : ParsePDFReturn(1, t)
  \/ \E ok \in BOOLEAN, d \in SourceChunkLists : CreateDocumentsReturn(1, ok, d)
  \/ \E ok \in BOOLEAN : GetCollectionReturn(1, ok)
  \/ \E ok \in BOOLEAN : CreateCollectionReturn(1, ok)
  \/ \E ok \in BOOLEAN : EmbedDocumentsReturn(1, ok)
  \/ \E ok \in BOOLEAN, unlinkOk \in BOOLEAN : AddReturn(1, ok, unlinkOk)

\* The server with one upload of more chunks than a query returns
SpecSources == Init /\ [][SourcesNext \/ ChatNext]_vars

\* ======================= ChromaDB initialization =======================

\* chromaClient.heartbeat() returns or throws: initializeChroma resolves, or rethrows
\* and the .catch of the listen callback handles the rejection
HeartbeatReturn(ok) ==
  /\ startup.initializeChroma = "pending"
  /\ startup' =
       IF ok THEN [startup EXCEPT !.initializeChroma = "resolved"]
       ELSE [initializeChroma |-> "rejected", process |-> InitRejected(startup.process)]
  /\ UNCHANGED <<currentCollection, collections, store, upload, chat, vectorStore, info,
                 client, chromaClient, chatInterface>>

ChromaNext == \E ok \in BOOLEAN : HeartbeatReturn(ok)

\* The server with its background initialization
SpecChroma == Init /\ [][Next \/ ChromaNext]_vars

\* ======================= client disconnect =======================

\* The client closes the connection of a chat whose stream is open. The handler
\* registers no 'close' listener on req or res and passes no abort signal to its
\* calls, so the only effect is on the connection itself.
ClientDisconnect(c) ==
  /\ chat[c].pc \in {"embedQuery", "query", "invoke"}
  /\ ~chat[c].closed
  /\ chat' = [chat EXCEPT ![c].closed = TRUE]
  /\ UNCHANGED <<currentCollection, collections, store, upload, extra>>

DisconnectNext == \E c \in Chats : ClientDisconnect(c)

\* The server with clients that may drop a chat connection
SpecDisconnect == Init /\ [][Next \/ DisconnectNext]_vars

\* ======================= the browser client =======================

\* The files a user can pick: a PDF within the size limit, a larger PDF, another type
Files == {"pdf", "bigPdf", "other"}

\* What the rejected request carries: the server's error text, or nothing (no
\* response: network error or the 30 s axios timeout)
Rejections == {"server error", "none"}

\* FileUpload is rendered while currentView is 'upload'; its useState values are
\* created anew each time it is mounted
Unmounted(cl) ==
  [cl EXCEPT !.selectedFile = FALSE, !.uploadStatus = "null", !.error = "null"]

\* App's setCurrentView(view)
Show(cl, view) ==
  IF cl.currentView = "upload" /\ view # "upload"
    THEN [Unmounted(cl) EXCEPT !.currentView = view]
    ELSE [cl EXCEPT !.currentView = view]

\* handleFile of FileUpload
handleFile(cl, file) ==
  IF file = "other" THEN [cl EXCEPT !.error = "Please select a PDF file"]
  ELSE IF file = "bigPdf" THEN [cl EXCEPT !.error = "File size must be less than 10MB"]
  ELSE [cl EXCEPT !.selectedFile = TRUE, !.error = "null", !.uploadStatus = "null"]

\* The catch block of handleUpload
OnRejected(cl, rejection) ==
  [cl EXCEPT !.error = IF rejection = "none" THEN "Upload failed" ELSE rejection,
             !.uploadStatus = "error"]

\* The success path of handleUpload: setUploadStatus, then App's handleDocumentUploaded
OnResolved(cl, id) ==
  Show([cl EXCEPT !.uploadStatus = "success", !.collectionId = id,
                  !.documentLoaded = TRUE, !.isProcessing = FALSE], "chat")

\* The file input's onChange; the input is disabled while isProcessing
handleFileInput(file) ==
  /\ client.currentView = "upload"
  /\ ~client.isProcessing
  /\ client' = handleFile(client, file)
  /\ client' # client
  /\ UNCHANGED <<currentCollection, collections, store, upload, chat, vectorStore, info,
               chromaClient, startup, chatInterface>>

\* A file dropped on the upload area, which is never disabled
handleDrop(file) ==
  /\ client.currentView = "upload"
  /\ client' = handleFile(client, file)
  /\ client' # client
  /\ UNCHANGED <<currentCollection, collections, store, upload, chat, vectorStore, info,
               chromaClient, startup, chatInterface>>

\* A click on 'Upload & Process', disabled={!selectedFile || isProcessing}: the
\* handler runs up to "await uploadDocument(formData)"
handleUpload ==
  /\ client.currentView = "upload"
  /\ client.selectedFile /\ ~client.isProcessing
  /\ client.request = "none"
  /\ client' = [client EXCEPT !.error = "null", !.uploadStatus = "uploading",
                              !.isProcessing = TRUE, !.request = "pending"]
  /\ UNCHANGED <<currentCollection, collections, store, upload, chat, vectorStore, info,
               chromaClient, startup, chatInterface>>

\* uploadDocument resolves with the server's collectionId
UploadResolved(id) ==
  /\ client.request = "pending"
  /\ client' = [OnResolved(client, id) EXCEPT !.request = "none"]
  /\ UNCHANGED <<currentCollection, collections, store, upload, chat, vectorStore, info,
               chromaClient, startup, chatInterface>>

\* uploadDocument rejects; the setters of an unmounted FileUpload have no effect
UploadRejected(rejection) ==
  /\ client.request = "pending"
  /\ client' =
       IF client.currentView = "upload"
         THEN [OnRejected(client, rejection) EXCEPT !.request = "none"]
         ELSE [client EXCEPT !.request = "none"]
  /\ UNCHANGED <<currentCollection, collections, store, upload, chat, vectorStore, info,
               chromaClient, startup, chatInterface>>

\* A click on 'Clear', rendered when selectedFile && uploadStatus !== 'success' and
\* disabled while isProcessing: handleReset of FileUpload
handleResetFileUpload ==
  /\ client.currentView = "upload"
  /\ client.selectedFile /\ client.uploadStatus # "success" /\ ~client.isProcessing
  /\ client' = Unmounted(client)
  /\ UNCHANGED <<currentCollection, collections, store, upload, chat, vectorStore, info,
               chromaClient, startup, chatInterface>>

\* A click on 'Upload New Document', rendered when documentLoaded: handleReset of App
handleResetApp ==
  /\ client.documentLoaded
  /\ client' = [Show(client, "upload") EXCEPT !.documentLoaded = FALSE,
                                              !.collectionId = NoCollection,
                                              !.isProcessing = FALSE]
  /\ UNCHANGED <<currentCollection, collections, store, upload, chat, vectorStore, info,
               chromaClient, startup, chatInterface>>

\* A click on the Upload or Chat tab, rendered when documentLoaded
setCurrentView(view) ==
  /\ client.documentLoaded
  /\ client.currentView # view
  /\ client' = Show(client, view)
  /\ UNCHANGED <<currentCollection, collections, store, upload, chat, vectorStore, info,
               chromaClient, startup, chatInterface>>

UploadSettles ==
  \/ \E id \in Uploads : UploadResolved(id)
  \/ \E rejection \in Rejections : UploadRejected(rejection)

ClientNext ==
  \/ \E file \in Files : handleFileInput(file)
  \/ \E file \in Files : handleDrop(file)
  \/ handleUpload
  \/ UploadSettles
  \/ handleResetFileUpload
  \/ handleResetApp
  \/ \E view \in {"upload", "chat"} : setCurrentView(view)

\* The client alone: every request it sends settles, and a control that stays
\* enabled is eventually used
SpecClient ==
  /\ Init /\ [][ClientNext]_vars
  /\ WF_vars(UploadSettles)
  /\ WF_vars(\E file \in Files : handleFileInput(file))
  /\ WF_vars(handleUpload)
  /\ WF_vars(handleResetFileUpload)
  /\ WF_vars(handleResetApp)

\* ======================= the chat client =======================

\* Everything but ChatInterface
others ==
  <<currentCollection, collections, store, upload, chat, vectorStore, info, client,
    chromaClient, startup>>

\* The bytes of the response: 'data: ', the JSON text of the event, and two newlines
\* for each event the server writes. The prefix and the JSON text are several
\* characters long, so that a read can end inside either.
Prefix == <<"data:", " ">>
JSONStringify(event) == <<"{", event.type, "}">>

RECURSIVE Wire(_)
Wire(events) ==
  IF events = <<>> THEN <<>>
  ELSE Prefix \o JSONStringify(events[1]) \o <<"\n", "\n">> \o Wire(Tail(events))

\* The streams the server writes: start, answer, end or start, error
ServerStreams == {Wire(<<StartEvent>> \o OnNoDocs), Wire(<<StartEvent>> \o OnError({}))}

\* buffer.split('\n')
RECURSIVE Split(_)
Split(text) ==
  IF \A i \in 1..Len(text) : text[i] # "\n" THEN <<text>>
  ELSE LET i == CHOOSE i \in 1..Len(text) :
                  text[i] = "\n" /\ \A j \in 1..(i - 1) : text[j] # "\n"
       IN  <<SubSeq(text, 1, i - 1)>> \o Split(SubSeq(text, i + 1, Len(text)))

\* line.startsWith('data: ')
StartsWith(line, prefix) ==
  Len(line) >= Len(prefix) /\ SubSeq(line, 1, Len(prefix)) = prefix

\* JSON.parse of an event's text: its type, or a SyntaxError for a part of it
JSONParse(text) ==
  IF Len(text) = 3 /\ text[1] = "{" /\ text[3] = "}" THEN text[2] ELSE "SyntaxError"

\* data.type of a line, "none" for a line without the prefix
EventOf(line) ==
  IF StartsWith(line, Prefix) THEN JSONParse(SubSeq(line, Len(Prefix) + 1, Len(line)))
  ELSE "none"

\* Mutant: the unfinished line thrown away after each read
RemainderDropped(lines) == <<>>

\* buffer = lines.pop() || '', and the lines left to process
Remainder(lines) == lines[Len(lines)]
Complete(lines) == SubSeq(lines, 1, Len(lines) - 1)

\* The events of the lines that change the bot message, in order
IsHandled(type) == type \in {"answer", "error"}
Handled(lines) == SelectSeq([k \in 1..Len(lines) |-> EventOf(lines[k])], IsHandled)

\* setMessages(prev => prev.map(msg => msg.id === botMessage.id ? {...} : msg))
OnEvent(messages, id, type) ==
  [k \in 1..Len(messages) |->
     IF messages[k].id # id THEN messages[k]
     ELSE IF type = "answer"
       THEN [messages[k] EXCEPT !.content = "data.answer", !.sources = "data.sources"]
     ELSE [messages[k] EXCEPT
             !.content = "Sorry, I encountered an error processing your question."]]

RECURSIVE OnEvents(_, _, _)
OnEvents(messages, id, types) ==
  IF types = <<>> THEN messages
  ELSE OnEvents(OnEvent(messages, id, types[1]), id, Tail(types))

\* inputMessage.trim()
Trim(text) == IF text = " " THEN "" ELSE text

\* Mutant: handleSendMessage without its early return
NeverReturnsEarly(inputMessage, isLoading, isStreaming) == FALSE

\* if (!inputMessage.trim() || isLoading || isStreaming) return
ReturnsEarly(inputMessage, isLoading, isStreaming) ==
  Trim(inputMessage) = "" \/ isLoading \/ isStreaming

\* The updater of the outer catch block. It names botMessage, a const declared inside
\* the try block and so not in scope in the catch block: the map callback throws a
\* ReferenceError for the first message it is called on.
CatchUpdater(messages) == IF messages = <<>> THEN messages ELSE "ReferenceError"

\* The outer catch and finally blocks of call r, and the render that follows
Caught(ci, r) ==
  LET updated == CatchUpdater(ci.messages)
  IN  [ci EXCEPT !.rendered = IF updated = "ReferenceError" THEN updated ELSE @,
                 !.messages = IF updated = "ReferenceError" THEN @ ELSE updated,
                 !.isLoading = FALSE, !.isStreaming = FALSE,
                 !.sends[r].pc = "failed"]

\* The question is typed; the input is disabled while isLoading or isStreaming
setInputMessage(text) ==
  /\ chatInterface.rendered = "ok"
  /\ ~chatInterface.isLoading /\ ~chatInterface.isStreaming
  /\ text # chatInterface.inputMessage
  /\ chatInterface' = [chatInterface EXCEPT !.inputMessage = text]
  /\ UNCHANGED others

\* A submit or Enter event reaches handleSendMessage, which runs up to
\* "await sendMessage(...)"
handleSendMessage ==
  /\ chatInterface.rendered = "ok"
  /\ chatInterface.sent < MaxSends
  /\ LET ci == chatInterface
         r == ci.sent + 1
         userMessage == [id |-> 2 * r, type |-> "user", content |-> Trim(ci.inputMessage),
                         sources |-> "undefined"]
         botMessage == [id |-> 2 * r + 1, type |-> "bot", content |-> "", sources |-> <<>>]
     IN  chatInterface' =
           IF ReturnsEarly(ci.inputMessage, ci.isLoading, ci.isStreaming) THEN ci
           ELSE [ci EXCEPT !.messages = @ \o <<userMessage, botMessage>>,
                           !.inputMessage = "", !.isLoading = TRUE, !.isStreaming = TRUE,
                           !.sent = r,
                           !.sends[r] = [NoSend EXCEPT !.pc = "sendMessage",
                                                       !.bot = botMessage.id]]
  /\ UNCHANGED others

\* sendMessage resolves with the response, or throws (network error, or a status that
\* is not 2xx)
SendMessageReturn(r, ok, stream) ==
  /\ chatInterface.rendered = "ok"
  /\ chatInterface.sends[r].pc = "sendMessage"
  /\ chatInterface' =
       IF ok THEN [chatInterface EXCEPT !.sends[r].pc = "read", !.sends[r].stream = stream]
       ELSE Caught(chatInterface, r)
  /\ UNCHANGED others

\* reader.read() returns the next n characters of the stream; the loop body runs
ReadReturn(r, n) ==
  /\ chatInterface.rendered = "ok"
  /\ chatInterface.sends[r].pc = "read"
  /\ LET ci == chatInterface
         send == ci.sends[r]
         lines == Split(send.buffer \o SubSeq(send.stream, send.pos + 1, send.pos + n))
         types == Handled(Complete(lines))
     IN  /\ send.pos + n <= Len(send.stream)
         /\ chatInterface' =
              [ci EXCEPT !.messages = OnEvents(@, send.bot, types),
                         !.sends[r].pos = @ + n,
                         !.sends[r].buffer = Remainder(lines),
                         !.sends[r].applied = @ \o types,
                         !.sends[r].cut = @ \/ lines[Len(lines)] # <<>>]
  /\ UNCHANGED others

\* reader.read() reports done: the loop ends and the finally blocks run
ReadDone(r) ==
  /\ chatInterface.rendered = "ok"
  /\ chatInterface.sends[r].pc = "read"
  /\ chatInterface.sends[r].pos = Len(chatInterface.sends[r].stream)
  /\ chatInterface' = [chatInterface EXCEPT !.sends[r].pc = "done",
                                            !.isLoading = FALSE, !.isStreaming = FALSE]
  /\ UNCHANGED others

\* reader.read() rejects: the connection broke
ReadRejected(r) ==
  /\ chatInterface.rendered = "ok"
  /\ chatInterface.sends[r].pc = "read"
  /\ chatInterface' = Caught(chatInterface, r)
  /\ UNCHANGED others

\* 'Clear Chat', disabled while isLoading or isStreaming
clearChat ==
  /\ chatInterface.rendered = "ok"
  /\ ~chatInterface.isLoading /\ ~chatInterface.isStreaming
  /\ chatInterface.messages # <<Welcome>>
  /\ chatInterface' = [chatInterface EXCEPT !.messages = <<Welcome>>]
  /\ UNCHANGED others

ChatClientNext ==
  \/ \E text \in {"", " ", "q"} : setInputMessage(text)
  \/ handleSendMessage
  \/ \E r \in 1..MaxSends, ok \in BOOLEAN :
       \E stream \in (IF ok THEN ServerStreams ELSE {<<>>}) : SendMessageReturn(r, ok, stream)
  \/ \E r \in 1..MaxSends, n \in 1..Len(Wire(<<StartEvent>> \o OnNoDocs)) : ReadReturn(r, n)
  \/ \E r \in 1..MaxSends : ReadDone(r)
  \/ \E r \in 1..MaxSends : ReadRejected(r)
  \/ clearChat

\* One ChatInterface and the responses it may get
SpecChatClient == Init /\ [][ChatClientNext]_vars

\* ======================= GET /collection/:id =======================

\* The handler: 404 while vectorStore is null, else the collection's count (200),
\* or 500 when reading it throws
CollectionInfo(id, store_, countOk) ==
  IF store_ = "null" THEN [id |-> id, status |-> 404]
  ELSE IF countOk THEN [id |-> id, status |-> 200]
  ELSE [id |-> id, status |-> 500]

InfoRequest(id, countOk) ==
  /\ info' = CollectionInfo(id, vectorStore, countOk)
  /\ info' # info
  /\ UNCHANGED <<currentCollection, collections, store, upload, chat, vectorStore, client,
               chromaClient, startup, chatInterface>>

InfoNext == \E id \in Uploads, countOk \in BOOLEAN : InfoRequest(id, countOk)

\* Uploads and collection-info requests
SpecInfo == Init /\ [][UploadNext \/ InfoNext]_vars

\* ======================= properties =======================

EventTypes(c) == [k \in 1..Len(chat[c].written) |-> chat[c].written[k].type]
ValidCount(u) == Len(ValidIndices(upload[u].docs))
FullyPopulated(u) == ValidCount(u) >= 1 /\ Len(store[u]) = ValidCount(u)

\* C1: a chat that reaches the vector store queries the collection its collectionId
\* names and no other (so its documents are that collection's), and a chat whose
\* collectionId names no registered collection queries nothing.
C1_ResolvedBySuppliedId ==
  \A c \in Chats :
    chat[c].handle # NoCollection =>
      /\ chat[c].handle = chat[c].collectionId
      /\ \A k \in 1..Len(chat[c].docs) : chat[c].docs[k].id[1] = chat[c].collectionId

\* The segments a chat addressed to collection a is answered from
SegmentsFor(a) ==
  LET handle == QueryHandle(a, currentCollection)
  IN  IF handle = NoCollection THEN <<>> ELSE store[handle]

\* C2: isolation. A step in which an upload b completes successfully leaves the
\* segments served to chats addressed to any other, already uploaded collection a
\* as they were.
C2_Isolation ==
  [][\A a, b \in Uploads :
       (a # b /\ upload[a].status = 200 /\ upload[b].status # 200 /\ upload'[b].status = 200)
         => SegmentsFor(a)' = SegmentsFor(a)]_vars

\* C3: the stream is opened (start written, embedQuery called) exactly when the
\* question is present and a handle is registered when the request arrives;
\* otherwise the request ends at once with 400 (the "No document loaded" error when
\* only the handle is missing), nothing written and no collaborator called, and it
\* stays so.
C3_Rejected(c) ==
  /\ chat[c].pc = "done" /\ chat[c].ended
  /\ chat[c].written = <<>>
  /\ chat[c].embedCalls = 0 /\ chat[c].queryCalls = 0 /\ chat[c].llmCalls = 0

FailureStages ==
  {"parsePDF", "createDocuments", "createCollection", "noDocuments",
   "noValidDocuments", "embedDocuments", "add"}

C4_FailedUploadLeavesHandle ==
  /\ [](\A u \in Uploads : upload[u].stage \in FailureStages => currentCollection # u)
  /\ [][\A u \in Uploads :
          /\ (upload'[u].stage \in FailureStages /\ upload[u].pc # "done")
               => currentCollection' = currentCollection
          /\ (currentCollection' = u /\ currentCollection # u)
               => upload'[u].pc = "done" /\ upload'[u].stage \notin FailureStages]_vars

C4_Witness ==
  \E u, v \in Uploads :
    /\ upload[u].stage = "add" /\ upload[u].status = 500
    /\ Len(store[u]) >= 1
    /\ u # v /\ currentCollection = v

\* C5: the registered collection, and the collection any chat has queried, holds
\* every valid chunk of its upload; a collection that is still being filled is
\* never the registered one.
C5_HandleFullyPopulated ==
  /\ currentCollection # NoCollection => FullyPopulated(currentCollection)
  /\ \A c \in Chats : chat[c].handle # NoCollection => FullyPopulated(chat[c].handle)
  /\ \A u \in Uploads : upload[u].pc \in {"embedDocuments", "add"} => currentCollection # u

C5_Witness ==
  \E c \in Chats, u \in Uploads :
    /\ chat[c].pc = "query" /\ chat[c].handle # u
    /\ upload[u].pc = "add" /\ upload[u].i >= 1

\* C6: a chat whose stream was opened and in which no call failed has written
\* start alone while it runs and exactly start, answer, end once it has ended;
\* it ends with its last call, and nothing is written to an ended response.
C6_StartAnswerEnd ==
  /\ [](\A c \in Chats :
          (chat[c].status = 200 /\ chat[c].failedAt = "none") =>
            /\ chat[c].ended <=> chat[c].pc = "done"
            /\ EventTypes(c) = IF chat[c].ended THEN <<"start", "answer", "end">>
                               ELSE <<"start">>)
  /\ [][\A c \in Chats : chat[c].ended => chat'[c] = chat[c]]_vars

C6_Witness ==
  \E c \in Chats :
    /\ chat[c].ended /\ chat[c].failedAt = "none"
    /\ chat[c].llmCalls = 1 /\ Len(chat[c].docs) >= 1

\* C7: a chat in which embedQuery, the query or the LLM call failed has written
\* exactly start, error and is ended; every ended stream finishes with end or error;
\* an error event is the last event of its stream.
C7_ErrorThenClose ==
  \A c \in Chats :
    /\ chat[c].failedAt # "none" =>
         chat[c].ended /\ EventTypes(c) = <<"start", "error">>
    /\ (chat[c].ended /\ chat[c].status = 200) =>
         EventTypes(c)[Len(chat[c].written)] \in {"end", "error"}
    /\ \A k \in 1..Len(chat[c].written) :
         chat[c].written[k].type = "error" => k = Len(chat[c].written)

C7_Witness ==
  \E c \in Chats : chat[c].failedAt = "invoke" /\ chat[c].ended /\ chat[c].llmCalls = 1

\* C8: when the query returns no document the chat ends with start, the canned
\* answer with an empty sources list, end, and llm.invoke was never called.
QueryReturnedNothing(c) ==
  /\ chat[c].queryCalls = 1 /\ chat[c].pc \in {"invoke", "done"}
  /\ chat[c].failedAt \notin {"embedQuery", "query"}
  /\ chat[c].docs = <<>>

C8_NoDocsNoLLM ==
  \A c \in Chats :
    QueryReturnedNothing(c) =>
      /\ chat[c].llmCalls = 0
      /\ chat[c].ended
      /\ chat[c].written = <<StartEvent, CannedAnswer, EndEvent>>
      /\ chat[c].written[2].sources = <<>>

C8_Witness ==
  \E c \in Chats : QueryReturnedNothing(c) /\ Len(store[chat[c].handle]) >= 1

\* C9: an upload of a non-PDF file, or of a PDF the extractor cannot read, is
\* answered with 400 and is not registered.
C9_UnreadableIs400 ==
  \A u \in Uploads :
    upload[u].stage \in {"fileFilter", "parsePDF"} =>
      upload[u].status = 400 /\ currentCollection # u

\* C10: an upload with no file, or whose text is empty or whitespace, is answered
\* with 400 having called nothing past parsePDF, created no collection, stored and
\* registered nothing; an upload that got past the text check and failed is
\* answered with 500.
C10_EarlyRejectionIs400 ==
  \A u \in Uploads :
    /\ (upload[u].pc # "idle"
          /\ (upload[u].mimetype = "none" \/ upload[u].text \in {"empty", "whitespace"})) =>
         /\ upload[u].pc = "done" /\ upload[u].status = 400
         /\ upload[u].calls \subseteq {"parsePDF"}
         /\ u \notin collections /\ store[u] = <<>> /\ currentCollection # u
    /\ ("createDocuments" \in upload[u].calls /\ upload[u].pc = "done"
          /\ upload[u].status # 200) =>
         upload[u].status = 500

C10_Witness ==
  \E u, v \in Uploads :
    /\ upload[u].text = "whitespace" /\ upload[u].status = 400
    /\ upload[v].stage = "embedDocuments" /\ upload[v].status = 500

\* C11: a GET /collection/:id request is answered 200 when :id is the collectionId
\* that an upload already answered with 200 returned, and 404 otherwise.
C11_CollectionInfoByUpload ==
  [][info' # info =>
       info'.status = IF upload[info'.id].status = 200 THEN 200 ELSE 404]_vars

\* C12: the registered handle never returns to null; a chat that was let past the
\* checks queries a collection (the null-handle failure never happens), and a chat
\* that arrives once a handle is registered is not answered "No document loaded".
C12_ReadyNeverEmpty ==
  /\ [](\A c \in Chats :
          /\ chat[c].pc \in {"query", "invoke"} => chat[c].handle # NoCollection
          /\ chat[c].failedAt = "query" => chat[c].queryCalls = 1)
  /\ [][/\ currentCollection # NoCollection => currentCollection' # NoCollection
        /\ \A c \in Chats :
             (chat[c].pc = "idle" /\ chat'[c].pc # "idle" /\ currentCollection # NoCollection)
               => chat'[c].error # "No document loaded. Please upload a document first."]_vars

C12_Witness ==
  \E c \in Chats :
    /\ currentCollection = 1
    /\ upload[2].stage = "add" /\ upload[2].status = 500
    /\ chat[c].pc = "query" /\ chat[c].handle = 1

\* The step in which upload u's last collection.add returns
CompletesInserts(u) ==
  /\ upload[u].pc = "add"
  /\ Len(store[u]) < ValidCount(u)
  /\ Len(store'[u]) = ValidCount(u)

\* C13: last write wins. The handle changes exactly in the steps in which an upload
\* completes its inserts, and then names that upload's collection, whatever was
\* registered before; a chat queries the collection registered when its query starts.
C13_LastWriteWins ==
  [][/\ \A u \in Uploads : CompletesInserts(u) => currentCollection' = u
     /\ currentCollection' # currentCollection => \E u \in Uploads : CompletesInserts(u)
     /\ \A c \in Chats :
          (chat[c].pc = "embedQuery" /\ chat'[c].pc = "query")
            => chat'[c].handle = currentCollection]_vars

C13_Witness ==
  \E c \in Chats :
    /\ upload[1].status = 200 /\ upload[2].status = 200
    /\ currentCollection = 1
    /\ chat[c].pc = "done" /\ chat[c].handle = 1 /\ chat[c].llmCalls = 1

\* C14: once the client has disconnected from a chat, the server starts no further
\* collaborator call for that request and writes no further event to it.
C14_DisconnectStopsWork ==
  [][\A c \in Chats :
       chat[c].closed =>
         /\ chat'[c].embedCalls = chat[c].embedCalls
         /\ chat'[c].queryCalls = chat[c].queryCalls
         /\ chat'[c].llmCalls = chat[c].llmCalls
         /\ chat'[c].written = chat[c].written]_vars

\* The answer events written to chat c that were produced from retrieved segments
SourcedAnswers(c) ==
  {k \in 1..Len(chat[c].written) :
     chat[c].written[k].type = "answer" /\ chat[c].llmCalls = 1}

\* C15: an answer produced from retrieved segments carries at most 4 sources, one per
\* retrieved segment in retrieval order; each source's content is the first 200
\* characters of its segment followed by an ellipsis, never more than 203 characters.
C15_SourcesTruncated ==
  \A c \in Chats : \A k \in SourcedAnswers(c) :
    LET sources == chat[c].written[k].sources
    IN  /\ Len(sources) <= 4
        /\ Len(sources) = Len(chat[c].docs)
        /\ \A j \in 1..Len(sources) :
             /\ sources[j].of = chat[c].docs[j].document
             /\ sources[j].prefix =
                  IF Chars(sources[j].of.kind) < 200 THEN Chars(sources[j].of.kind) ELSE 200
             /\ sources[j].chars = sources[j].prefix + 3
             /\ sources[j].chars <= 203

\* Four sources of a five-chunk collection, one quoted whole and one cut at 200
C15_Witness ==
  \E c \in Chats : \E k \in SourcedAnswers(c) :
    LET sources == chat[c].written[k].sources
    IN  /\ Len(store[chat[c].handle]) > 4
        /\ Len(sources) = 4
        /\ \E j \in 1..4 : sources[j].prefix = 199
        /\ \E j \in 1..4 : sources[j].prefix = 200 /\ Chars(sources[j].of.kind) = 1000

\* C16: in every insert of an upload the id, the text and the embedding belong to the
\* same chunk: the three arrays have equal length, the i-th embedding of the batch is
\* stored with the i-th valid text, and dropping blank chunks shifts nothing.
C16_InsertAligned ==
  \A u \in Uploads :
    /\ upload[u].pc \in {"embedDocuments", "add"} =>
         /\ Len(ValidIds(u, upload[u].docs)) = Len(ValidDocuments(upload[u].docs))
         /\ Len(EmbeddingsList(ValidDocuments(upload[u].docs)))
              = Len(ValidDocuments(upload[u].docs))
    /\ \A k \in 1..Len(store[u]) :
         LET e == store[u][k]
         IN  /\ e.id = <<u, e.document.chunk>>
             /\ e.embedding.of = e.document
             /\ e.document.kind # "blank"
             /\ upload[u].pc = "add" =>
                  /\ e.document.kind = upload[u].docs[e.document.chunk + 1]
                  /\ e.embedding = EmbeddingsList(ValidDocuments(upload[u].docs))[k]

\* A chunk stored after a blank chunk was dropped in front of it
C16_Witness ==
  \E u \in Uploads :
    /\ Len(store[u]) = 1
    /\ store[u][1].document.chunk = 1
    /\ store[u][1].id = <<u, 1>>

C19_OpenedChatEnds ==
  /\ [](\A c \in Chats :
          (chat[c].status = 200 /\ ~chat[c].ended)
            => chat[c].pc \in {"embedQuery", "query", "invoke"})
  /\ \A c \in Chats : (chat[c].status = 200) ~> chat[c].ended

\* A streamed chat that went through all three calls and ended its response
C19_Witness ==
  \E c \in Chats :
    /\ chat[c].status = 200 /\ chat[c].ended
    /\ chat[c].embedCalls = 1 /\ chat[c].queryCalls = 1 /\ chat[c].llmCalls = 1

\* C20: in the browser client, after handleUpload's request is rejected isProcessing
\* eventually becomes false again, so that a new upload can be started.
C20_FailedUploadRecovers ==
  (client.uploadStatus = "error") ~> ~client.isProcessing

\* An upload that found no usable ChromaDB: the client is null, or both the lookup and
\* the create failed
ChromaFailed(u) == upload[u].stage \in {"chromaClient", "createCollection"}

C22_ChunksCountIsInserted ==
  \A u \in Uploads :
    upload[u].status = 200 => upload[u].chunksCount = Len(store[CollectionName(u)])

\* The placeholder bot message of call r
Placeholder(r) ==
  {k \in 1..Len(chatInterface.messages) :
     chatInterface.messages[k].id = chatInterface.sends[r].bot}

\* C23: when sendMessage fails, the placeholder bot message of that question gets the
\* content 'Sorry, I encountered an error. Please try again.', and isLoading and
\* isStreaming are false again.
C23_FailedSendShowsError ==
  \A r \in 1..MaxSends :
    (chatInterface.sends[r].pc = "failed" /\ chatInterface.sends[r].stream = <<>>)
      => /\ \A k \in Placeholder(r) :
              chatInterface.messages[k].content
                = "Sorry, I encountered an error. Please try again."
         /\ Placeholder(r) # {}
         /\ ~chatInterface.isLoading /\ ~chatInterface.isStreaming

\* What one read of the first pos characters of the stream would apply and keep
OneRead(stream, pos) == Split(SubSeq(stream, 1, pos))

\* C24: however the stream is cut into reads, the client has applied to the bot
\* message the 'answer' and 'error' events it would have applied had the same
\* characters arrived in one read; at the end that is the one answer or error the
\* server sent.
C24_ReadsDoNotMatter ==
  \A r \in 1..MaxSends :
    LET send == chatInterface.sends[r]
    IN  send.stream # <<>> =>
          /\ send.applied = Handled(Complete(OneRead(send.stream, send.pos)))
          /\ send.buffer = OneRead(send.stream, send.pos)[Len(OneRead(send.stream, send.pos))]
          /\ send.pc = "done" =>
               /\ send.applied \in {<<"answer">>, <<"error">>}
               /\ \A k \in Placeholder(r) :
                    chatInterface.messages[k].content
                      = IF send.applied = <<"answer">> THEN "data.answer"
                        ELSE "Sorry, I encountered an error processing your question."

\* A read that ended inside the answer's line, which is applied by a later read
C24_Witness ==
  \E r \in 1..MaxSends :
    LET send == chatInterface.sends[r]
    IN  /\ send.pc = "done" /\ send.cut
        /\ send.applied = <<"answer">>
        /\ \E k \in Placeholder(r) : chatInterface.messages[k].content = "data.answer"

\* The handleSendMessage calls awaiting sendMessage or reading its response
InFlight == {r \in 1..MaxSends : chatInterface.sends[r].pc \in {"sendMessage", "read"}}

\* C25: a ChatInterface has at most one chat request in flight: while isLoading or
\* isStreaming is true handleSendMessage sends nothing and appends no message, and an
\* accepted submission appends exactly one user message and one empty bot message.
C25_OneRequestInFlight ==
  /\ [](/\ Cardinality(InFlight) <= 1
        /\ InFlight # {} => chatInterface.isLoading /\ chatInterface.isStreaming)
  /\ [][LET ci == chatInterface
            n == Len(chatInterface.messages)
        IN  /\ (ci.isLoading \/ ci.isStreaming) =>
                 /\ ci'.sent = ci.sent
                 /\ Len(ci'.messages) = n
            /\ ci'.sent # ci.sent =>
                 /\ ci'.sent = ci.sent + 1
                 /\ Len(ci'.messages) = n + 2
                 /\ SubSeq(ci'.messages, 1, n) = ci.messages
                 /\ ci'.messages[n + 1].type = "user"
                 /\ ci'.messages[n + 2].type = "bot" /\ ci'.messages[n + 2].content = ""
                 /\ ci'.sends[ci'.sent].pc = "sendMessage"]_vars

\* The second question in flight after the first was answered
C25_Witness ==
  /\ chatInterface.sent = 2
  /\ chatInterface.sends[1].pc = "done"
  /\ InFlight = {2}
  /\ Len(chatInterface.messages) = 5

\* C26: the file multer stored for an upload is deleted exactly when the upload ends
\* with 200, in the step that answers; it is still on disk when the request ends
\* with 400 (no text content) or 500 (extraction or processing failure).
C26_FileDeletedIffSuccess ==
  /\ [](\A u \in Uploads :
          /\ upload[u].file = "deleted" <=> upload[u].status = 200
          /\ (upload[u].pc = "done" /\ upload[u].status \in {400, 500}
                /\ "parsePDF" \in upload[u].calls)
               => upload[u].file = "ondisk")
  /\ [][\A u \in Uploads :
          upload'[u].file # upload[u].file =>
            \/ upload[u].pc = "idle" /\ upload'[u].file = "ondisk"
            \/ /\ upload[u].pc = "add" /\ upload'[u].pc = "done"
               /\ upload'[u].file = "deleted"
               /\ Len(store'[CollectionName(u)]) = ValidCount(u)]_vars

\* One upload answered 200 with its file removed, another failed while inserting and
\* left its file behind
C26_Witness ==
  \E u, v \in Uploads :
    /\ upload[u].status = 200 /\ upload[u].file = "deleted"
    /\ upload[v].status = 500 /\ upload[v].stage = "add" /\ upload[v].file = "ondisk"

====
